---- MODULE Spec2Model ----
(***************************************************************************)
(* confguru.backends.zookeeper.ZKClient: the import of a nested document   *)
(* into a ZooKeeper node tree (initialize_from_json_file, _create_children,*)
(* _create_child) and the export of a node tree back to a nested document  *)
(* (dump_to_json_file, _dump_children).                                    *)
(*                                                                         *)
(* A Python string is a sequence of characters; a character is "/" or a    *)
(* token standing for a non-empty run of characters other than "/".        *)
(* Node values are opaque byte strings.                                    *)
(***************************************************************************)
EXTENDS Naturals, Sequences, FiniteSets, TLC

VARIABLES store, seqno, doc, opts, last, steps, proc, wrote, xp

vars == <<store, seqno, doc, opts, last, steps, proc, wrote, xp>>

\* Bounds of the model.
MaxSteps == 2
MaxListLen == 2

OK == "ok"
NoNodeError == "NoNodeError"
NodeExistsError == "NodeExistsError"
NoAuthError == "NoAuthError"
NoChildrenForEphemeralsError == "NoChildrenForEphemeralsError"

(***************************************************************************)
(* Paths                                                                   *)
(***************************************************************************)
Slash == "/"

Front(s) == SubSeq(s, 1, Len(s) - 1)
Last(s) == s[Len(s)]

\* "/".join([path, key])
Join(path, key) == path \o <<Slash>> \o key

\* path.split("/")
RECURSIVE Split(_)
Split(s) ==
    IF \A i \in 1..Len(s) : s[i] # Slash
    THEN <<s>>
    ELSE LET i == CHOOSE i \in 1..Len(s) :
                      s[i] = Slash /\ \A j \in 1..(i - 1) : s[j] # Slash
         IN  <<SubSeq(s, 1, i - 1)>> \o Split(SubSeq(s, i + 1, Len(s)))

\* The node a client path names: kazoo prefixes the chroot ("/") and drops
\* empty segments, so "a", "/a", "//a" and "/a/" all name the node /a.
NormPath(path) == SelectSeq(Split(path), LAMBDA seg : seg # <<>>)

(***************************************************************************)
(* Documents: Scalar(string) | List(values) | Map(key -> value).  A map    *)
(* keeps its entries in the order the dict iterates them.                  *)
(***************************************************************************)
Ent(k, v) == [k |-> k, v |-> v]
Scalar(s) == [t |-> "s", s |-> s, e |-> <<>>]
List(es) == [t |-> "l", s |-> "", e |-> [i \in 1..Len(es) |-> Ent(<<>>, es[i])]]
Map(kvs) == [t |-> "m", s |-> "", e |-> kvs]
None == [t |-> "none", s |-> "", e |-> <<>>]

\* Python truthiness: "", [] and {} are falsy
Falsy(value) ==
    \/ value.t = "s" /\ value.s = ""
    \/ value.t \in {"l", "m"} /\ value.e = <<>>

(***************************************************************************)
(* The ZooKeeper tree behind the kazoo client.  A node has a byte value,   *)
(* the permissions its ACL grants this client, and an ephemeral flag.      *)
(***************************************************************************)
AclAll == {"read", "write", "create", "delete", "admin"}
AclReadWrite == {"read", "write"}
AclReadOnly == {"read"}
AclNoRead == {"write", "create", "delete", "admin"}

Node(value, acl, eph) == [value |-> value, acl |-> acl, eph |-> eph]
Root == <<>>
EmptyStore == (Root :> Node("", AclAll, FALSE))

ChildPaths(st, p) ==
    {q \in DOMAIN st : Len(q) = Len(p) + 1 /\ SubSeq(q, 1, Len(p)) = p}

\* The server's create of one node at a normalised path
ServerCreate(st, p, value, acl, eph) ==
    IF p = Root THEN [st |-> st, err |-> NodeExistsError]
    ELSE IF Front(p) \notin DOMAIN st THEN [st |-> st, err |-> NoNodeError]
    ELSE IF "create" \notin st[Front(p)].acl THEN [st |-> st, err |-> NoAuthError]
    ELSE IF p \in DOMAIN st THEN [st |-> st, err |-> NodeExistsError]
    ELSE IF st[Front(p)].eph
         THEN [st |-> st, err |-> NoChildrenForEphemeralsError]
    ELSE [st |-> st @@ (p :> Node(value, acl, eph)), err |-> OK]

\* kazoo's ensure_path: the missing ancestors, persistent and empty
RECURSIVE ensure_path(_, _, _)
ensure_path(st, p, acl) ==
    IF p \in DOMAIN st THEN [st |-> st, err |-> OK]
    ELSE LET up == ensure_path(st, Front(p), acl)
         IN  IF up.err # OK THEN up
             ELSE ServerCreate(up.st, p, "", acl, FALSE)

\* The name a sequence node gets: the key followed by a unique index
SeqName(name, n) == name \o <<ToString(n)>>

\* ZKClient.create: s is [st, seqno]
create(s, path, value, acl, ephemeral, sequence, makepath) ==
    LET p == NormPath(path)
        target == IF sequence /\ p # Root
                  THEN Front(p) \o <<SeqName(Last(p), s.seqno)>>
                  ELSE p
        first == ServerCreate(s.st, target, value, acl, ephemeral)
        made == ensure_path(s.st, Front(p), acl)
        res == IF first.err = NoNodeError /\ makepath
               THEN IF made.err # OK THEN made
                    ELSE ServerCreate(made.st, target, value, acl, ephemeral)
               ELSE first
    IN  [st |-> res.st,
         seqno |-> IF sequence /\ res.err = OK THEN s.seqno + 1 ELSE s.seqno,
         err |-> res.err]

\* update as a delete of the node's subtree and a fresh node in its place
UpdateByReplacing(s, path, value) ==
    LET p == NormPath(path)
    IN  IF p \notin DOMAIN s.st
        THEN [st |-> s.st, seqno |-> s.seqno, err |-> NoNodeError]
        ELSE IF "write" \notin s.st[p].acl
        THEN [st |-> s.st, seqno |-> s.seqno, err |-> NoAuthError]
        ELSE [st |-> [q \in {q \in DOMAIN s.st :
                                 q = p \/ Len(q) < Len(p)
                                 \/ SubSeq(q, 1, Len(p)) # p} |->
                        IF q = p THEN [s.st[p] EXCEPT !.value = value]
                        ELSE s.st[q]],
              seqno |-> s.seqno, err |-> OK]

\* ZKClient.update with version = -1
update(s, path, value) ==
    LET p == NormPath(path)
    IN  IF p \notin DOMAIN s.st
        THEN [st |-> s.st, seqno |-> s.seqno, err |-> NoNodeError]
        ELSE IF "write" \notin s.st[p].acl
        THEN [st |-> s.st, seqno |-> s.seqno, err |-> NoAuthError]
        ELSE [st |-> [s.st EXCEPT ![p].value = value], seqno |-> s.seqno,
              err |-> OK]

\* ZKClient.get
get(st, path) ==
    LET p == NormPath(path)
    IN  IF p \notin DOMAIN st THEN [err |-> NoNodeError, value |-> ""]
        ELSE IF "read" \notin st[p].acl THEN [err |-> NoAuthError, value |-> ""]
        ELSE [err |-> OK, value |-> st[p].value]

\* ZKClient.delete with version = -1, recursive = False
delete(st, path) ==
    LET p == NormPath(path)
    IN  IF p = Root \/ p \notin DOMAIN st THEN [st |-> st, err |-> NoNodeError]
        ELSE IF "delete" \notin st[Front(p)].acl THEN [st |-> st, err |-> NoAuthError]
        ELSE IF ChildPaths(st, p) # {} THEN [st |-> st, err |-> "NotEmptyError"]
        ELSE [st |-> [q \in DOMAIN st \ {p} |-> st[q]], err |-> OK]

\* exists(path) -> bool
exists(st, path) == NormPath(path) \in DOMAIN st

\* getChildren(path) -> the immediate child segments
get_children(st, path) ==
    LET p == NormPath(path)
    IN  IF p \notin DOMAIN st THEN [err |-> NoNodeError, children |-> {}]
        ELSE IF "read" \notin st[p].acl THEN [err |-> NoAuthError, children |-> {}]
        ELSE [err |-> OK, children |-> {Last(q) : q \in ChildPaths(st, p)}]

(***************************************************************************)
(* Import                                                                  *)
(***************************************************************************)
Opts(acl, ephemeral, sequence, makepath) ==
    [acl |-> acl, ephemeral |-> ephemeral, sequence |-> sequence,
     makepath |-> makepath]
DefaultOpts == Opts(AclAll, FALSE, FALSE, TRUE)

Call(path, value) == [path |-> path, value |-> value]

\* _create_children: the _create_child calls the walk makes, in order
RECURSIVE _create_children(_, _), CreateEach(_, _, _)
_create_children(path, value) ==
       (IF Falsy(value) THEN <<Call(path, "")>> ELSE <<>>)
    \o (IF value.t = "s" THEN <<Call(path, value.s)>> ELSE <<>>)
    \o (IF value.t = "l" THEN CreateEach(path, value.e, FALSE) ELSE <<>>)
    \o (IF value.t = "m" THEN CreateEach(path, value.e, TRUE) ELSE <<>>)
CreateEach(path, es, isdict) ==
    IF es = <<>> THEN <<>>
    ELSE _create_children(IF isdict THEN Join(path, Head(es).k) ELSE path,
                          Head(es).v)
         \o CreateEach(path, Tail(es), isdict)

\* _create_child whose update passes no value
CreateOrUpdateEmpty(s, found, path, value, o) ==
    IF ~found
    THEN create(s, path, value, o.acl, o.ephemeral, o.sequence, o.makepath)
    ELSE update(s, path, "")

\* _create_child that leaves a node it finds as it is
CreateIfAbsent(s, found, path, value, o) ==
    IF ~found
    THEN create(s, path, value, o.acl, o.ephemeral, o.sequence, o.makepath)
    ELSE [st |-> s.st, seqno |-> s.seqno, err |-> OK]

\* _create_child after its exists(path) answered found: create the node if
\* it was not there, else set its value
CreateOrUpdate(s, found, path, value, o) ==
    IF ~found
    THEN create(s, path, value, o.acl, o.ephemeral, o.sequence, o.makepath)
    ELSE update(s, path, value)

\* _create_child, with nothing between its two calls
_create_child(s, path, value, o) ==
    CreateOrUpdate(s, exists(s.st, path), path, value, o)

\* The calls of a whole document: one walk per root key
RECURSIVE RootCalls(_)
RootCalls(es) ==
    IF es = <<>> THEN <<>>
    ELSE _create_children(Head(es).k, Head(es).v) \o RootCalls(Tail(es))

\* The walk: an exception of _create_child ends it.  calls is the outcome
\* of every _create_child issued, in order.
RECURSIVE Walk(_, _, _)

\* A walk that catches the exception of a _create_child and goes on
WalkOn(s, calls, o) ==
    IF calls = <<>> THEN s
    ELSE LET r == _create_child(s, Head(calls).path, Head(calls).value, o)
             s1 == [st |-> r.st, seqno |-> r.seqno, err |-> s.err,
                    calls |-> Append(s.calls, r.err)]
         IN  Walk(s1, Tail(calls), o)

Walk(s, calls, o) ==
    IF calls = <<>> THEN s
    ELSE LET r == _create_child(s, Head(calls).path, Head(calls).value, o)
             s1 == [st |-> r.st, seqno |-> r.seqno, err |-> r.err,
                    calls |-> Append(s.calls, r.err)]
         IN  IF r.err # OK THEN s1 ELSE Walk(s1, Tail(calls), o)

initialize_from_json_file(st, sq, json_data, o) ==
    Walk([st |-> st, seqno |-> sq, err |-> OK, calls |-> <<>>],
         RootCalls(json_data.e), o)

(***************************************************************************)
(* Export                                                                  *)
(***************************************************************************)
\* The order in which a set of names is iterated
RECURSIVE OrderOf(_)
OrderOf(S) ==
    IF S = {} THEN <<>>
    ELSE LET x == CHOOSE x \in S : TRUE IN <<x>> \o OrderOf(S \ {x})

Raise(err) == [t |-> "raise", s |-> err, e |-> <<>>]

\* dict.update taken for an assignment
DictAssign(d, other) == other

\* dict.update: d is a Map, other a Map
RECURSIVE DictUpdate(_, _)
DictUpdate(d, other) ==
    IF other.e = <<>> THEN d
    ELSE LET n == Head(other.e)
             hit == {i \in 1..Len(d.e) : d.e[i].k = n.k}
             d1 == IF hit = {}
                   THEN Map(Append(d.e, n))
                   ELSE Map([i \in 1..Len(d.e) |->
                                IF i \in hit THEN n ELSE d.e[i]])
         IN  DictUpdate(d1, Map(Tail(other.e)))

\* _dump_children: None when the node's value cannot be read; an exception
\* of get_children is not caught and leaves the walk.
\* A node with children that yields its children alone
DataTreeNoValue(cur_path, cur_val, list_flag, children_data) ==
    Map(<<Ent(cur_path, children_data)>>)

\* The dict a node with children yields: [value, children] when the node
\* holds a value, else the children alone
DataTree(cur_path, cur_val, list_flag, children_data) ==
    IF list_flag
    THEN Map(<<Ent(cur_path, List(<<Scalar(cur_val), children_data>>))>>)
    ELSE Map(<<Ent(cur_path, children_data)>>)

\* A child that yields None empties what the loop has gathered
MergeOrReset(children_data, tpm_data) ==
    IF tpm_data = None THEN Map(<<>>)
    ELSE DictUpdate(children_data, tpm_data)

\* A child that yields None is skipped, any other is merged
Merge(children_data, tpm_data) ==
    IF tpm_data = None THEN children_data
    ELSE DictUpdate(children_data, tpm_data)

\* cur_path: the text after the path's last "/", or "/" when there is none
CurPath(path) ==
    IF Last(Split(path)) = <<>> THEN <<Slash>> ELSE Last(Split(path))

RECURSIVE _dump_children(_, _), DumpEach(_, _, _, _)
_dump_children(st, path) ==
    LET cur_path == CurPath(path)
        got == get(st, path)
        cur_val == got.value
        list_flag == cur_val # ""
        ch == get_children(st, path)
        children_data == DumpEach(st, path, OrderOf(ch.children), Map(<<>>))
    IN  IF got.err # OK THEN None
        ELSE IF ch.err # OK THEN Raise(ch.err)
        ELSE IF ch.children # {}
        THEN IF children_data.t = "raise" THEN children_data
             ELSE DataTree(cur_path, cur_val, list_flag, children_data)
        ELSE Map(<<Ent(cur_path, Scalar(cur_val))>>)
DumpEach(st, path, children, children_data) ==
    IF children = <<>> THEN children_data
    ELSE LET tpm_data == _dump_children(st, Join(path, Head(children)))
         IN  IF tpm_data.t = "raise" THEN tpm_data
             ELSE DumpEach(st, path, Tail(children),
                           Merge(children_data, tpm_data))

(***************************************************************************)
(* Inputs                                                                  *)
(***************************************************************************)
KeyA == <<"a">>
KeyB == <<"b">>
Keys == {KeyA, KeyB}
Str == {"", "x", "y"}
PathA == <<Slash>> \o KeyA
PathB == <<Slash>> \o KeyB

Leaf == {Scalar(s) : s \in Str}
Inner == {Scalar("x"), Scalar("")}
Maps ==
    {Map(<<>>)}
    \cup {Map(<<Ent(k, x)>>) :
            k \in Keys, x \in Inner \cup {Map(<<Ent(KeyA, Scalar("y"))>>)}}
    \cup {Map(<<Ent(KeyA, x), Ent(KeyB, y)>>) : x \in Inner, y \in Inner}
Elems == Leaf \cup {Map(<<Ent(KeyA, Scalar("y")), Ent(KeyB, Scalar(""))>>)}
Lists == {List(es) : es \in UNION {[1..n -> Elems] : n \in 0..MaxListLen}}

\* The documents a file may hold: a map at the top, of one or two keys
Docs == {Map(<<Ent(KeyA, v)>>) : v \in Leaf \cup Maps \cup Lists}
        \cup {Map(<<Ent(KeyA, v), Ent(KeyB, Scalar("y"))>>) : v \in Leaf \cup Maps}

ImportOpts ==
    {Opts(acl, e, s, m) : acl \in {AclAll, AclReadWrite, AclReadOnly},
                          e \in BOOLEAN, s \in BOOLEAN, m \in BOOLEAN}

\* The trees the client may find when it connects: nothing but the root;
\* /a = "y" with a child /a/b = "x"; an unreadable /b beside a readable /a
\* that has an unreadable child /a/a.
Made(st, path, value, acl) ==
    create([st |-> st, seqno |-> 0], path, value, acl, FALSE, FALSE, TRUE).st
SeedValue == Made(Made(EmptyStore, PathA, "y", AclAll),
                  Join(PathA, KeyB), "x", AclAll)
SeedDenied == Made(Made(Made(EmptyStore, PathB, "y", AclNoRead),
                        PathA, "", AclAll),
                   Join(PathA, KeyA), "x", AclNoRead)
Seeds == {EmptyStore, SeedValue, SeedDenied}

DumpRoots == {<<Slash>>, PathA, PathA \o <<Slash>>}

(***************************************************************************)
(* One client, one call at a time                                          *)
(***************************************************************************)
\* last: the call made last, the store it found, and what it gave back.
\* again: it repeats the import made just before it.
Op(op, err, calls, pre, root, out, again) ==
    [op |-> op, err |-> err, calls |-> calls, pre |-> pre,
     root |-> root, out |-> out, again |-> again]
NoOp == Op("none", OK, <<>>, EmptyStore, <<>>, None, FALSE)

Idle == <<>>

Init ==
    /\ store \in Seeds
    /\ seqno = 0
    /\ doc \in Docs
    /\ opts \in ImportOpts
    /\ last = NoOp
    /\ steps = 0
    /\ proc = Idle
    /\ wrote = Idle
    /\ xp = Idle

\* initialize_from_json_file(doc, acl, ephemeral, sequence, makepath)
ImportJson ==
    /\ steps < MaxSteps
    /\ LET r == initialize_from_json_file(store, seqno, doc, opts)
       IN  /\ store' = r.st
           /\ seqno' = r.seqno
           /\ last' = Op("import", r.err, r.calls, store, <<>>, None,
                         last.op = "import")
    /\ steps' = steps + 1
    /\ UNCHANGED <<doc, opts, proc, wrote, xp>>

\* dump_to_json_file(starting_root)
DumpJson(root) ==
    /\ last' = Op("dump", OK, <<>>, store, root,
                  _dump_children(store, root), FALSE)
    /\ UNCHANGED <<store, seqno, doc, opts, steps, proc, wrote, xp>>

Next ==
    \/ ImportJson
    \/ \E root \in DumpRoots : DumpJson(root)

Spec == Init /\ [][Next]_vars

(***************************************************************************)
(* Two importers at once.  Each runs initialize_from_json_file with the    *)
(* default options; a step is one call to the store, and the calls of the  *)
(* two interleave freely.                                                  *)
(***************************************************************************)
Importers == {"p1", "p2"}

ConcDocs ==
    {Map(<<Ent(KeyA, Scalar("x"))>>),
     Map(<<Ent(KeyA, Scalar("y")), Ent(KeyB, Scalar("x"))>>),
     Map(<<Ent(KeyA, Map(<<Ent(KeyB, Scalar("y"))>>))>>),
     Map(<<Ent(KeyA, List(<<Scalar("x"), Scalar("y")>>))>>)}

\* An importer about to walk json_data
Importer(json_data) ==
    LET calls == RootCalls(json_data.e)
    IN  [doc |-> json_data, calls |-> calls,
         pc |-> IF calls = <<>> THEN "done" ELSE "exists",
         found |-> FALSE, err |-> OK]

InitConc ==
    /\ store = EmptyStore
    /\ seqno = 0
    /\ doc = Map(<<>>)
    /\ opts = DefaultOpts
    /\ last = NoOp
    /\ steps = 0
    /\ proc \in [Importers -> {Importer(d) : d \in ConcDocs}]
    /\ wrote = <<>>
    /\ xp = Idle

\* _create_child, line 294: self.exists(path)
ImporterExists(c) ==
    /\ proc[c].pc = "exists"
    /\ proc' = [proc EXCEPT ![c].found = exists(store, Head(proc[c].calls).path),
                            ![c].pc = "write"]
    /\ UNCHANGED <<store, seqno, doc, opts, last, steps, wrote, xp>>

\* _create_child, lines 295-299: self.create or self.update; an exception
\* leaves initialize_from_json_file
ImporterWrite(c) ==
    /\ proc[c].pc = "write"
    /\ LET call == Head(proc[c].calls)
           r == CreateOrUpdate([st |-> store, seqno |-> seqno], proc[c].found,
                               call.path, call.value, opts)
           rest == Tail(proc[c].calls)
       IN  /\ store' = r.st
           /\ seqno' = r.seqno
           /\ proc' = [proc EXCEPT
                         ![c].err = r.err,
                         ![c].calls = IF r.err = OK THEN rest ELSE @,
                         ![c].pc = IF r.err # OK THEN "failed"
                                   ELSE IF rest = <<>> THEN "done" ELSE "exists"]
           /\ wrote' = IF r.err = OK
                       THEN Append(wrote, [by |-> c, path |-> NormPath(call.path),
                                           value |-> call.value])
                       ELSE wrote
    /\ UNCHANGED <<doc, opts, last, steps, xp>>

NextConc ==
    \E c \in Importers : ImporterExists(c) \/ ImporterWrite(c)

SpecConc == InitConc /\ [][NextConc]_vars

(***************************************************************************)
(* An export while another client deletes nodes.  A step of the exporter   *)
(* is one call to the store or one turn of the loop over the children;     *)
(* xp.stack holds the activations of _dump_children, the innermost last.   *)
(***************************************************************************)
Frame(path) ==
    [path |-> path, pc |-> "get", cur_val |-> "", children |-> <<>>,
     children_data |-> Map(<<>>)]

SeedLeaves == Made(Made(EmptyStore, PathA, "y", AclAll), PathB, "x", AclAll)
RaceSeeds == {SeedValue, SeedLeaves}
DeletePaths == {PathA, PathB, Join(PathA, KeyB)}

InitRace ==
    /\ store \in RaceSeeds
    /\ seqno = 0
    /\ doc = Map(<<>>)
    /\ opts = DefaultOpts
    /\ last = NoOp
    /\ steps = 0
    /\ proc = Idle
    /\ wrote = <<>>
    /\ \E root \in DumpRoots :
          xp = [stack |-> <<Frame(root)>>, status |-> "running", err |-> OK,
                out |-> None, root |-> root]

\* _dump_children returns v: the caller merges it, or the export is over
Return(v) ==
    LET n == Len(xp.stack)
    IN  IF n = 1
        THEN xp' = [xp EXCEPT !.stack = <<>>, !.status = "returned", !.out = v]
        ELSE xp' = [xp EXCEPT
                      !.stack = [SubSeq(xp.stack, 1, n - 1) EXCEPT
                                   ![n - 1].children_data = Merge(@, v)]]

\* lines 384-390: self.get(path) in try/except
ExporterGet ==
    /\ xp.status = "running"
    /\ LET n == Len(xp.stack)
           f == xp.stack[n]
           got == get(store, f.path)
       IN  /\ f.pc = "get"
           /\ IF got.err # OK
              THEN Return(None)
              ELSE xp' = [xp EXCEPT !.stack[n].cur_val = got.value,
                                    !.stack[n].pc = "list"]
    /\ UNCHANGED <<store, seqno, doc, opts, last, steps, proc, wrote>>

\* lines 396-405 and 414-417: self.get_children(path), outside the try
ExporterGetChildren ==
    /\ xp.status = "running"
    /\ LET n == Len(xp.stack)
           f == xp.stack[n]
           ch == get_children(store, f.path)
       IN  /\ f.pc = "list"
           /\ IF ch.err # OK
              THEN xp' = [xp EXCEPT !.status = "raised", !.err = ch.err]
              ELSE IF ch.children = {}
              THEN Return(Map(<<Ent(CurPath(f.path), Scalar(f.cur_val))>>))
              ELSE xp' = [xp EXCEPT !.stack[n].children = OrderOf(ch.children),
                                    !.stack[n].pc = "loop"]
    /\ UNCHANGED <<store, seqno, doc, opts, last, steps, proc, wrote>>

\* lines 407-412 and 417: the next child, or the return after the last
ExporterLoop ==
    /\ xp.status = "running"
    /\ LET n == Len(xp.stack)
           f == xp.stack[n]
       IN  /\ f.pc = "loop"
           /\ IF f.children = <<>>
              THEN Return(DataTree(CurPath(f.path), f.cur_val, f.cur_val # "",
                                   f.children_data))
              ELSE xp' = [xp EXCEPT
                            !.stack = Append([xp.stack EXCEPT
                                                ![n].children = Tail(@)],
                                             Frame(Join(f.path, Head(f.children))))]
    /\ UNCHANGED <<store, seqno, doc, opts, last, steps, proc, wrote>>

\* Another client's delete(path)
OtherDelete(path) ==
    /\ delete(store, path).err = OK
    /\ store' = delete(store, path).st
    /\ UNCHANGED <<seqno, doc, opts, last, steps, proc, wrote, xp>>

NextRace ==
    \/ ExporterGet
    \/ ExporterGetChildren
    \/ ExporterLoop
    \/ \E path \in DeletePaths : OtherDelete(path)

SpecRace == InitRace /\ [][NextRace]_vars

(***************************************************************************)
(* Properties of one client's calls                                        *)
(***************************************************************************)
Range(f) == {f[i] : i \in DOMAIN f}

\* A document with every map's entries in one fixed order of the keys:
\* two documents equal up to key ordering have the same Canon
RECURSIVE Canon(_)
Canon(d) ==
    IF d.t = "m"
    THEN LET ks == OrderOf({d.e[i].k : i \in DOMAIN d.e})
         IN  Map([j \in 1..Len(ks) |->
                    LET i == CHOOSE i \in DOMAIN d.e : d.e[i].k = ks[j]
                    IN  Ent(ks[j], Canon(d.e[i].v))])
    ELSE IF d.t = "l"
    THEN [d EXCEPT !.e = [i \in DOMAIN d.e |-> Ent(<<>>, Canon(d.e[i].v))]]
    ELSE d

RECURSIVE ScalarOrMap(_)
ScalarOrMap(v) ==
    \/ v.t = "s"
    \/ v.t = "m" /\ \A i \in DOMAIN v.e : ScalarOrMap(v.e[i].v)

RECURSIVE NoEmptyMap(_)
NoEmptyMap(v) ==
    v.t = "m" => v.e # <<>> /\ \A i \in DOMAIN v.e : NoEmptyMap(v.e[i].v)

Imported == last.op = "import"
ImportedOK == Imported /\ last.err = OK
Export(path) == Canon(_dump_children(store, path))

\* The document was imported into an empty store, without sequence names
FreshImport ==
    ImportedOK /\ last.pre = EmptyStore /\ ~opts.sequence

RoundTrips ==
    /\ \A i \in DOMAIN doc.e :
          Export(<<Slash>> \o doc.e[i].k) = Canon(Map(<<doc.e[i]>>))
    /\ Export(<<Slash>>) = Canon(Map(<<Ent(<<Slash>>, doc)>>))

\* C1 as stated: a document of scalars and maps, imported into an empty
\* store and exported key by key (and from "/"), comes back equal up to key
\* ordering.
C1_RoundTripAnyMap ==
    FreshImport /\ ScalarOrMap(doc) => RoundTrips

\* C1, amended: the same for a document of scalars and non-empty maps.
C1_RoundTrip ==
    FreshImport /\ ScalarOrMap(doc) /\ NoEmptyMap(doc) => RoundTrips

C1_Witness ==
    /\ FreshImport /\ ScalarOrMap(doc) /\ NoEmptyMap(doc)
    /\ Len(doc.e) = 2
    /\ doc.e[1].v.t = "m" /\ doc.e[1].v.e[1].v.t = "m"

\* C2 as stated: under any import options, an import that repeats the
\* import made just before it leaves the store as it found it.
C2_IdempotentAnyOptions ==
    Imported /\ last.again => store = last.pre

\* C2, amended: the same when sequence is off and the acl lets the importer
\* write the nodes it creates.
C2_Idempotent ==
    Imported /\ last.again /\ ~opts.sequence /\ "write" \in opts.acl
        => store = last.pre

C2_Witness ==
    /\ Imported /\ last.again /\ ~opts.sequence /\ "write" \in opts.acl
    /\ last.err = OK /\ Len(last.calls) >= 3
    /\ doc.e[1].v.t = "l"

\* The i-th root key holds [v, M], v a non-empty string and M a non-empty
\* map of scalars, and its node did not exist before the import
MixedCase(i) ==
    LET v == doc.e[i].v
    IN  /\ ImportedOK /\ ~opts.sequence
        /\ NormPath(doc.e[i].k) \notin DOMAIN last.pre
        /\ v.t = "l" /\ Len(v.e) = 2
        /\ v.e[1].v.t = "s" /\ v.e[1].v.s # ""
        /\ v.e[2].v.t = "m" /\ v.e[2].v.e # <<>>
        /\ \A j \in DOMAIN v.e[2].v.e : v.e[2].v.e[j].v.t = "s"

\* C3: importing key -> [v, M] gives a node with value v and one child per
\* entry of M holding that entry's value, and exporting the node gives
\* key -> [v, M] back.
C3_MixedRoundTrip ==
    \A i \in DOMAIN doc.e :
        MixedCase(i) =>
            LET p == NormPath(doc.e[i].k)
                M == doc.e[i].v.e[2].v
            IN  /\ p \in DOMAIN store
                /\ store[p].value = doc.e[i].v.e[1].v.s
                /\ ChildPaths(store, p) = {p \o <<M.e[j].k>> : j \in DOMAIN M.e}
                /\ \A j \in DOMAIN M.e :
                      /\ store[p \o <<M.e[j].k>>].value = M.e[j].v.s
                      /\ ChildPaths(store, p \o <<M.e[j].k>>) = {}
                /\ Export(<<Slash>> \o doc.e[i].k) = Canon(Map(<<doc.e[i]>>))

C3_Witness ==
    \E i \in DOMAIN doc.e : MixedCase(i) /\ Len(doc.e[i].v.e[2].v.e) = 2

\* The i-th root key holds a non-empty list of scalar strings and its node
\* had no children before the import
FanInCase(i) ==
    LET v == doc.e[i].v
    IN  /\ ImportedOK /\ ~opts.sequence
        /\ ChildPaths(last.pre, NormPath(doc.e[i].k)) = {}
        /\ v.t = "l" /\ v.e # <<>>
        /\ \A j \in DOMAIN v.e : v.e[j].v.t = "s"

\* C4: after importing key -> [v1, ..., vn], scalars, the node holds vn and
\* has no children.
C4_ListFanIn ==
    \A i \in DOMAIN doc.e :
        FanInCase(i) =>
            LET p == NormPath(doc.e[i].k)
                v == doc.e[i].v
            IN  /\ p \in DOMAIN store
                /\ store[p].value = v.e[Len(v.e)].v.s
                /\ ChildPaths(store, p) = {}

C4_Witness ==
    \E i \in DOMAIN doc.e :
        /\ FanInCase(i)
        /\ Len(doc.e[i].v.e) >= 2
        /\ doc.e[i].v.e[1].v.s = "x"
        /\ doc.e[i].v.e[Len(doc.e[i].v.e)].v.s = "y"

\* The export of last.root found the node readable and with children
Dumped == last.op = "dump"
DumpedChildren ==
    IF get(store, last.root).err = OK
    THEN get_children(store, last.root).children
    ELSE {}
ReadableChild(c) == get(store, Join(last.root, c)).err = OK

\* The map of children in what the export returned
ChildrenOf(out) ==
    LET top == out.e[1].v
    IN  IF top.t = "l" THEN top.e[2].v ELSE top

\* C5: a child whose value cannot be read is absent from the parent's map,
\* the export does not raise, and every readable sibling is there with its
\* whole exported subtree.
C5_DeniedChildOmitted ==
    Dumped /\ DumpedChildren # {} =>
        /\ last.out.t = "m"
        /\ ChildrenOf(last.out).t = "m"
        /\ {e.k : e \in Range(ChildrenOf(last.out).e)}
              = {c \in DumpedChildren : ReadableChild(c)}
        /\ \A e \in Range(ChildrenOf(last.out).e) :
              Map(<<e>>) = _dump_children(store, Join(last.root, e.k))

C5_Witness ==
    /\ Dumped
    /\ \E c \in DumpedChildren : ~ReadableChild(c)
    /\ \E c \in DumpedChildren :
          /\ ReadableChild(c)
          /\ get_children(store, Join(last.root, c)).children # {}

\* The nodes the document names
Named == {NormPath(c.path) : c \in Range(RootCalls(doc.e))}

\* C6: every node that existed before an import exists after it, with its
\* acl and its kind; a node the document does not name keeps its value.
C6_ImportAdditive ==
    Imported =>
        \A p \in DOMAIN last.pre :
            /\ p \in DOMAIN store
            /\ store[p].acl = last.pre[p].acl
            /\ store[p].eph = last.pre[p].eph
            /\ (p \notin Named => store[p].value = last.pre[p].value)

C6_Witness ==
    /\ ImportedOK
    /\ last.pre = SeedValue
    /\ store[<<KeyA>>].value # last.pre[<<KeyA>>].value
    /\ <<KeyA, KeyB>> \notin Named

\* C7: a failed _create_child is the last call of the import, its error is
\* the import's, and the writes made before it are in the store.
C7_FailFast ==
    Imported =>
        LET n == Len(last.calls)
            ops == RootCalls(doc.e)
        IN  /\ n <= Len(ops)
            /\ \A i \in 1..n : last.calls[i] # OK => i = n
            /\ last.err = (IF n = 0 THEN OK ELSE last.calls[n])
            /\ last.err = OK => n = Len(ops)
            /\ last.err # OK /\ ~opts.sequence =>
                  \A i \in 1..(n - 1) :
                      LET p == NormPath(ops[i].path)
                          j == CHOOSE j \in i..(n - 1) :
                                  /\ NormPath(ops[j].path) = p
                                  /\ \A k \in (j + 1)..(n - 1) :
                                        NormPath(ops[k].path) # p
                      IN  p \in DOMAIN store /\ store[p].value = ops[j].value

C7_Witness ==
    /\ Imported /\ last.err # OK
    /\ Len(last.calls) >= 2
    /\ Len(last.calls) < Len(RootCalls(doc.e))
    /\ store # last.pre

\* The last non-empty segment of a path, "/" when it has none
LastSegment(path) ==
    IF NormPath(path) = <<>> THEN <<Slash>> ELSE Last(NormPath(path))

\* C10: the single key of an exported document is the last non-empty
\* segment of root_path, "/" only when root_path has no segment.
C10_TopLevelKey ==
    Dumped /\ last.out.t = "m" =>
        /\ Len(last.out.e) = 1
        /\ last.out.e[1].k = LastSegment(last.root)

(***************************************************************************)
(* Properties of concurrent calls                                          *)
(***************************************************************************)
\* C8: a read that fails during an export, the value's or the children's,
\* never ends the export with an exception.
C8_ExportNeverRaises == xp.status # "raised"

\* The last successful write to a path by any importer
LastWrite(p) ==
    LET is == {i \in DOMAIN wrote : wrote[i].path = p}
    IN  wrote[CHOOSE i \in is : \A j \in is : j <= i]

\* C9: under every interleaving no import fails, and a node the importers
\* wrote holds the value written last.
C9_ConcurrentImportsComplete ==
    /\ \A c \in Importers : proc[c].pc # "failed"
    /\ \A i \in DOMAIN wrote :
          store[wrote[i].path].value = LastWrite(wrote[i].path).value

====
